---- MODULE Spec2Model ----
(***************************************************************************)
(* Model of the storybook backend (backend/server.py): the Story record,   *)
(* the narrative renderer generate_story_content, and the three story      *)
(* endpoints create_story, get_story and get_all_stories over the          *)
(* db.stories collection.                                                  *)
(*                                                                         *)
(* Strings are TLA+ strings, i.e. sequences of characters: \o is Python's  *)
(* +, Len is len, SubSeq is slicing.  An Optional[str] value is <<>> for   *)
(* None and <<s>> for the string s, so that None differs from every        *)
(* string.  A datetime is its number of microseconds since the epoch.      *)
(***************************************************************************)
EXTENDS Integers, Sequences, FiniteSets, TLC

VARIABLES
    db,        \* db.stories: the stored documents, in insertion order
    pc,        \* per request: where its handler coroutine stands
    locals,    \* per request: the handler's arguments and local variables
    resp,      \* per request: the HTTP response sent
    rendered   \* log of direct generate_story_content calls (RenderSpec)

vars == <<db, pc, locals, resp, rendered>>

----------------------------------------------------------------------------
(* Bounds of the model.                                                    *)

MaxReqs == 2          \* concurrent HTTP requests
MaxIngredients == 2   \* length of special_ingredients in RenderSpec

----------------------------------------------------------------------------
(* Python values.                                                          *)

None == <<>>
Some(x) == <<x>>

\* dict.get(key, default)
DictGet(d, key, default) == IF key \in DOMAIN d THEN d[key] ELSE default

\* sep.join(parts)
RECURSIVE Join(_, _)
Join(sep, parts) ==
    IF parts = <<>> THEN ""
    ELSE IF Len(parts) = 1 THEN parts[1]
    ELSE parts[1] \o sep \o Join(sep, Tail(parts))

\* the characters str.strip() removes, those for which str.isspace() holds.
\* A string of this module is a string of ASCII characters, and these ten
\* (U+0009-000D, U+001C-001F, U+0020) are the ASCII ones among them; the
\* other nineteen (U+0085, U+00A0, U+1680, U+2000-200A, U+2028, U+2029,
\* U+202F, U+205F, U+3000) are in no string of the module.
Whitespace ==
    {"\t", "\n", "", "\f", "\r",
     "", "", "", "", " "}

RECURSIVE LStrip(_)
LStrip(s) ==
    IF Len(s) > 0 /\ SubSeq(s, 1, 1) \in Whitespace
    THEN LStrip(SubSeq(s, 2, Len(s)))
    ELSE s

RECURSIVE RStrip(_)
RStrip(s) ==
    IF Len(s) > 0 /\ SubSeq(s, Len(s), Len(s)) \in Whitespace
    THEN RStrip(SubSeq(s, 1, Len(s) - 1))
    ELSE s

\* str.strip()
Strip(s) == RStrip(LStrip(s))

----------------------------------------------------------------------------
(* generate_story_content                                                  *)

theme_settings ==
    [forest   |-> "deep in a magical forest filled with talking animals",
     space    |-> "on an exciting journey through the stars and planets",
     ocean    |-> "in the depths of the ocean with colorful sea creatures",
     castle   |-> "in a grand castle with brave knights and wise princesses",
     dinosaur |-> "in prehistoric times with friendly dinosaurs",
     fairy    |-> "in an enchanted fairy kingdom with magical powers"]

length_pages ==
    [short  |-> "a quick but exciting",
     medium |-> "a wonderful",
     long   |-> "an epic and detailed"]

\* mutant: an unknown theme falls back to the first table entry
setting_first_entry(story) ==
    DictGet(theme_settings, story.theme, theme_settings["forest"])

setting(story) == DictGet(theme_settings, story.theme, "in a magical world")

\* mutant: the tables' fallbacks are swapped with the "medium" entry
story_length_desc_medium(story) ==
    DictGet(length_pages, story.length, length_pages["medium"])

story_length_desc(story) == DictGet(length_pages, story.length, "an amazing")

\* mutant: the ingredients are joined in reverse order
RECURSIVE Reverse(_)
Reverse(s) == IF s = <<>> THEN <<>> ELSE Append(Reverse(Tail(s)), Head(s))

ingredients_text_reversed(story) ==
    IF story.special_ingredients # <<>>
    THEN Join(", ", Reverse(story.special_ingredients))
    ELSE "special surprises"

ingredients_text(story) ==
    IF story.special_ingredients # <<>>
    THEN Join(", ", story.special_ingredients)
    ELSE "special surprises"

\* the f-string of generate_story_content, before .strip()
story_template(story) ==
    "\n"
    \o "    Once upon a time, there was a brave and curious child named "
    \o story.kid_name \o " who was " \o ToString(story.kid_age)
    \o " years old.\n"
    \o "    \n"
    \o "    One magical day, " \o story.kid_name \o " found themselves "
    \o setting(story) \o ". This was the beginning of "
    \o story_length_desc(story) \o " adventure!\n"
    \o "    \n"
    \o "    Along the way, " \o story.kid_name \o " discovered "
    \o ingredients_text(story)
    \o " that would help them on their journey.\n"
    \o "    \n"
    \o "    This " \o story.story_type
    \o " story was filled with wonder, excitement, and magical moments that "
    \o story.kid_name \o " would remember forever!\n"
    \o "    \n"
    \o "    The End.\n"
    \o "    "

\* mutant: the photo, when present, is interpolated into the text
generate_story_content_photo(story) ==
    Strip(story_template(story)
          \o (IF story.kid_photo = None THEN "" ELSE story.kid_photo[1]))

generate_story_content(story) == Strip(story_template(story))

----------------------------------------------------------------------------
(* The models Story and StoryCreate.                                       *)

StoryCreateFields ==
    {"kid_name", "kid_age", "kid_photo", "theme", "story_type", "length",
     "special_ingredients"}

StoryFields == StoryCreateFields \cup {"id", "created_at", "story_content"}

\* what constructing a model yields when a given value fails validation
ValidationError == [error |-> "ValidationError"]

\* the fields annotated str with default None: the default is taken
\* unvalidated when the key is absent, a None that is passed is no valid str
NoneDefaultFields == {"kid_photo", "story_content"}

\* validation of data against a model with the given fields: keys that are
\* no field of the model are ignored
PassesNone(data, fields) ==
    \E f \in NoneDefaultFields \cap fields \cap DOMAIN data : data[f] = None

\* Story(**story_dict): the keys given are validated, the extra ones (_id)
\* ignored, the absent ones take their default or their default factory's
\* value (uuid, utcnow); a kid_photo or story_content given as None raises
Story(story_dict, uuid, utcnow) ==
    IF PassesNone(story_dict, StoryFields) THEN ValidationError
    ELSE [id                  |-> DictGet(story_dict, "id", uuid),
          kid_name            |-> story_dict.kid_name,
          kid_age             |-> story_dict.kid_age,
          kid_photo           |-> DictGet(story_dict, "kid_photo", None),
          theme               |-> story_dict.theme,
          story_type          |-> story_dict.story_type,
          length              |-> story_dict.length,
          special_ingredients |->
              DictGet(story_dict, "special_ingredients", <<>>),
          created_at          |-> DictGet(story_dict, "created_at", utcnow),
          story_content       |-> DictGet(story_dict, "story_content", None)]

\* StoryCreate for a request body, and its .dict(): every field is present
\* in the dict, kid_photo as None when the body has none; a body whose
\* kid_photo is null is refused; a key that is no field (story_content) is
\* ignored
StoryCreate(body) ==
    IF PassesNone(body, StoryCreateFields) THEN ValidationError
    ELSE [kid_name            |-> body.kid_name,
          kid_age             |-> body.kid_age,
          kid_photo           |-> DictGet(body, "kid_photo", None),
          theme               |-> body.theme,
          story_type          |-> body.story_type,
          length              |-> body.length,
          special_ingredients |-> DictGet(body, "special_ingredients", <<>>)]

\* Story(**story) for a document read from the collection; no default
\* factory runs, the document holds id and created_at
StoryFromDocument(doc) == Story(doc, doc.id, doc.created_at)

----------------------------------------------------------------------------
(* The db.stories collection.                                              *)

\* a BSON datetime holds milliseconds: the driver drops the microseconds
\* below a millisecond when it encodes and returns whole milliseconds
BsonDatetime(us) == (us \div 1000) * 1000

\* insert_one(document): the document is encoded and appended under a new _id
InsertOne(coll, document) ==
    Append(coll, [document EXCEPT !.created_at = BsonDatetime(@)]
                     @@ [_id |-> Len(coll) + 1])

\* find_one({"id": story_id}): the first matching document, or None
FindOne(coll, story_id) ==
    LET hits == {i \in 1..Len(coll) : coll[i].id = story_id}
    IN  IF hits = {} THEN None
        ELSE Some(coll[CHOOSE i \in hits : \A j \in hits : i <= j])

ListLimit == 1000

\* find().to_list(1000)
FindToList(coll) ==
    SubSeq(coll, 1, IF Len(coll) < ListLimit THEN Len(coll) ELSE ListLimit)

----------------------------------------------------------------------------
(* Inputs.                                                                 *)

Reqs == 1..MaxReqs

\* values str(uuid.uuid4()) can return: a random value on each call, which
\* nothing compares with the values returned before or with the ids stored
Uuids == {"uuid-" \o ToString(i) : i \in Reqs}

\* values datetime.utcnow() can return, in microseconds
Times == {5000, 5250}

Photo == "data:image/png;base64,iVBORw0KGgo="

\* request bodies of POST /api/stories: the test's body; one that leaves out
\* special_ingredients; one that leaves out kid_photo; one whose kid_photo
\* is null
StoryInputs ==
    {[kid_name |-> "Test Kid", kid_age |-> 5, kid_photo |-> Some(Photo),
      theme |-> "forest", story_type |-> "adventure", length |-> "short",
      special_ingredients |-> <<"Magic spells", "Talking animals">>],
     [kid_name |-> "Ada", kid_age |-> 7, kid_photo |-> Some(Photo),
      theme |-> "volcano", story_type |-> "bedtime", length |-> "huge"],
     [kid_name |-> "Ada", kid_age |-> 7,
      theme |-> "volcano", story_type |-> "bedtime", length |-> "huge",
      special_ingredients |-> <<>>],
     [kid_name |-> "Ada", kid_age |-> 7, kid_photo |-> None,
      theme |-> "volcano", story_type |-> "bedtime", length |-> "huge",
      special_ingredients |-> <<>>]}

\* path parameters of GET /api/stories/{story_id}
StoryIds == Uuids \cup {"missing"}

NoLocals == [op |-> "none"]
NoResponse == [status |-> 0]

\* what FastAPI sends for a handler's return value that is no Response
\* object: the value, JSON-encoded, under the route's default status
OkStatus == 200
JsonResponse(value) == [status |-> OkStatus, body |-> value]

NotFoundStatus == 404

\* what FastAPI sends when the request body fails StoryCreate's validation
UnprocessableEntity ==
    [status |-> 422,
     body |-> [detail |-> <<[type |-> "string_type",
                             loc |-> <<"body", "kid_photo">>,
                             msg |-> "Input should be a valid string",
                             input |-> None]>>]]

\* what the server sends when the handler raises
InternalServerError == [status |-> 500, body |-> "Internal Server Error"]

----------------------------------------------------------------------------
(* The story endpoints.  A handler runs from one await to the next without *)
(* interruption; each has one await, on the collection.  While a handler   *)
(* is suspended there the collection carries out the operation, and the    *)
(* handlers of other requests run; the handler resumes in a later step.    *)

Init ==
    /\ db = <<>>
    /\ pc = [r \in Reqs |-> "idle"]
    /\ locals = [r \in Reqs |-> NoLocals]
    /\ resp = [r \in Reqs |-> NoResponse]
    /\ rendered = <<>>

\* the handler's local story_obj
StoryObj(r) == locals[r].story_obj

\* POST /api/stories up to create_story's await.  A body StoryCreate
\* refuses is answered 422 and the handler is not called.  Otherwise
\* story_dict holds every field of StoryCreate, and Story(**story_dict)
\* raises when kid_photo is None in it: the default factories have run,
\* the handler ends there, nothing is sent to the collection.
CreateStoryCall(r) ==
    /\ pc[r] = "idle"
    /\ \E body \in StoryInputs :
          LET story_data == StoryCreate(body)
          IN  IF story_data = ValidationError
              THEN /\ resp' = [resp EXCEPT ![r] = UnprocessableEntity]
                   /\ pc' = [pc EXCEPT ![r] = "done"]
                   /\ UNCHANGED locals
              ELSE \E uuid \in Uuids, utcnow \in Times :
                      LET story_obj == Story(story_data, uuid, utcnow)
                      IN  IF story_obj = ValidationError
                          THEN /\ locals' = [locals EXCEPT ![r] =
                                     [op |-> "create_story",
                                      story_data |-> story_data]]
                               /\ resp' = [resp EXCEPT ![r] =
                                              InternalServerError]
                               /\ pc' = [pc EXCEPT ![r] = "done"]
                          ELSE LET story_content ==
                                       generate_story_content(story_obj)
                               IN  /\ locals' = [locals EXCEPT ![r] =
                                         [op |-> "create_story",
                                          story_data |-> story_data,
                                          story_obj |-> [story_obj EXCEPT
                                              !.story_content =
                                                  Some(story_content)],
                                          story_content |-> story_content]]
                                   /\ pc' = [pc EXCEPT ![r] = "insert_one"]
                                   /\ UNCHANGED resp
    /\ UNCHANGED <<db, rendered>>

\* the collection carries out the insert_one create_story is awaiting: the
\* document is stored, and the handler, still suspended, has its result
InsertOneDone(r) ==
    /\ pc[r] = "insert_one"
    /\ db' = InsertOne(db, StoryObj(r))
    /\ locals' = [locals EXCEPT ![r] =
          [f \in DOMAIN locals[r] \cup {"result"} |->
              IF f = "result" THEN [inserted_id |-> Len(db) + 1]
              ELSE locals[r][f]]]
    /\ pc' = [pc EXCEPT ![r] = "inserted"]
    /\ UNCHANGED <<resp, rendered>>

\* the insert_one create_story is awaiting fails: nothing is stored, the
\* await raises, nothing in the handler catches it
InsertOneRaises(r) ==
    /\ pc[r] = "insert_one"
    /\ resp' = [resp EXCEPT ![r] = InternalServerError]
    /\ pc' = [pc EXCEPT ![r] = "done"]
    /\ UNCHANGED <<db, locals, rendered>>

\* create_story resumes after its await and returns
CreateStoryReturn(r) ==
    /\ pc[r] = "inserted"
    /\ resp' = [resp EXCEPT ![r] = JsonResponse(
                   [id |-> StoryObj(r).id,
                    message |-> "Story created successfully",
                    story_content |-> locals[r].story_content])]
    /\ pc' = [pc EXCEPT ![r] = "done"]
    /\ UNCHANGED <<db, locals, rendered>>

\* get_story up to its await; after_create records, for the round trip,
\* whether story_id is an id some create_story has already returned
GetStoryCall(r) ==
    /\ pc[r] = "idle"
    /\ \E story_id \in StoryIds :
          locals' = [locals EXCEPT ![r] =
              [op |-> "get_story",
               story_id |-> story_id,
               after_create |->
                   \E c \in Reqs : /\ pc[c] = "done"
                                   /\ locals[c].op = "create_story"
                                   /\ resp[c].status = OkStatus
                                   /\ resp[c].body.id = story_id]]
    /\ pc' = [pc EXCEPT ![r] = "find_one"]
    /\ UNCHANGED <<db, resp, rendered>>

\* the collection carries out the find_one get_story is awaiting: the
\* handler's story is what the collection holds in this step
FindOneDone(r) ==
    /\ pc[r] = "find_one"
    /\ locals' = [locals EXCEPT ![r] =
          [f \in DOMAIN locals[r] \cup {"story"} |->
              IF f = "story" THEN FindOne(db, locals[r].story_id)
              ELSE locals[r][f]]]
    /\ pc' = [pc EXCEPT ![r] = "found"]
    /\ UNCHANGED <<db, resp, rendered>>

\* the find_one get_story is awaiting fails: the await raises, nothing in
\* the handler catches it
FindOneRaises(r) ==
    /\ pc[r] = "find_one"
    /\ resp' = [resp EXCEPT ![r] = InternalServerError]
    /\ pc' = [pc EXCEPT ![r] = "done"]
    /\ UNCHANGED <<db, locals, rendered>>

\* what get_story answers for the result of find_one: on a miss it returns
\* the tuple (dict, 404), which is sent as a two-element JSON array under
\* status 200; on a hit Story(**story), or 500 when that raises
GetStoryResult(story) ==
    IF story = None
    THEN JsonResponse(<<[error |-> "Story not found"], NotFoundStatus>>)
    ELSE IF StoryFromDocument(story[1]) = ValidationError
         THEN InternalServerError
         ELSE JsonResponse(StoryFromDocument(story[1]))

\* get_story resumes after its await and answers for the story it was
\* given, whatever the collection holds by now
GetStoryReturn(r) ==
    /\ pc[r] = "found"
    /\ resp' = [resp EXCEPT ![r] = GetStoryResult(locals[r].story)]
    /\ pc' = [pc EXCEPT ![r] = "done"]
    /\ UNCHANGED <<db, locals, rendered>>

\* get_all_stories up to its await
GetAllStoriesCall(r) ==
    /\ pc[r] = "idle"
    /\ locals' = [locals EXCEPT ![r] = [op |-> "get_all_stories"]]
    /\ pc' = [pc EXCEPT ![r] = "find"]
    /\ UNCHANGED <<db, resp, rendered>>

\* the collection carries out the find().to_list(1000) get_all_stories is
\* awaiting: the handler's stories are what the collection holds in this
\* step
FindDone(r) ==
    /\ pc[r] = "find"
    /\ locals' = [locals EXCEPT ![r] =
          [op |-> "get_all_stories", stories |-> FindToList(db)]]
    /\ pc' = [pc EXCEPT ![r] = "listed"]
    /\ UNCHANGED <<db, resp, rendered>>

\* the find().to_list(1000) get_all_stories is awaiting fails: the await
\* raises, nothing in the handler catches it
FindRaises(r) ==
    /\ pc[r] = "find"
    /\ resp' = [resp EXCEPT ![r] = InternalServerError]
    /\ pc' = [pc EXCEPT ![r] = "done"]
    /\ UNCHANGED <<db, locals, rendered>>

\* what get_all_stories answers for the documents found: the list of
\* Story(**story), or 500 when one of them raises
GetAllStoriesResult(stories) ==
    IF \E i \in 1..Len(stories) : StoryFromDocument(stories[i]) = ValidationError
    THEN InternalServerError
    ELSE JsonResponse([i \in 1..Len(stories) |-> StoryFromDocument(stories[i])])

\* get_all_stories resumes after its await and answers for the stories it
\* was given
GetAllStoriesReturn(r) ==
    /\ pc[r] = "listed"
    /\ resp' = [resp EXCEPT ![r] = GetAllStoriesResult(locals[r].stories)]
    /\ pc' = [pc EXCEPT ![r] = "done"]
    /\ UNCHANGED <<db, locals, rendered>>

Next ==
    \E r \in Reqs :
        \/ CreateStoryCall(r)
        \/ InsertOneDone(r)
        \/ InsertOneRaises(r)
        \/ CreateStoryReturn(r)
        \/ GetStoryCall(r)
        \/ FindOneDone(r)
        \/ FindOneRaises(r)
        \/ GetStoryReturn(r)
        \/ GetAllStoriesCall(r)
        \/ FindDone(r)
        \/ FindRaises(r)
        \/ GetAllStoriesReturn(r)

Spec == Init /\ [][Next]_vars

----------------------------------------------------------------------------
(* Direct calls of generate_story_content, on Story objects of every       *)
(* recognized and unrecognized theme and length.                           *)

RenderThemes ==
    {"forest", "space", "ocean", "castle", "dinosaur", "fairy",
     "volcano", "Forest", ""}

RenderLengths == {"short", "medium", "long", "huge", ""}

RenderTokens == {"Magic spells", "Talking animals"}

RenderIngredients == UNION {[1..n -> RenderTokens] : n \in 0..MaxIngredients}

RenderPhotos == {None, Some(Photo)}

\* keyword arguments of Story(...), with a kid_photo and without
RenderInputs ==
    [kid_name : {"Test Kid", ""}, kid_age : {5, -3}, kid_photo : {Some(Photo)},
     theme : RenderThemes, story_type : {"adventure"}, length : RenderLengths,
     special_ingredients : RenderIngredients]
    \cup
    [kid_name : {"Test Kid", ""}, kid_age : {5, -3},
     theme : RenderThemes, story_type : {"adventure"}, length : RenderLengths,
     special_ingredients : RenderIngredients]

RenderIds == {"uuid-1", "uuid-2"}

RenderContents == {None, Some("Once upon a time. The End.")}

\* generate_story_content(story) on a freshly constructed Story
RenderFirst ==
    /\ rendered = <<>>
    /\ \E story_dict \in RenderInputs :
          LET story == Story(story_dict, "uuid-1", 5000)
          IN  rendered' = <<[story |-> story,
                             text |-> generate_story_content(story)]>>
    /\ UNCHANGED <<db, pc, locals, resp>>

\* generate_story_content on a Story with the same kid_name, kid_age, theme,
\* story_type, length and special_ingredients as the first, and kid_photo,
\* id, created_at and story_content assigned any value
RenderTwin ==
    /\ Len(rendered) = 1
    /\ \E photo \in RenderPhotos, uuid \in RenderIds, utcnow \in Times,
          content \in RenderContents :
          LET story == [rendered[1].story EXCEPT
                           !.kid_photo = photo, !.id = uuid,
                           !.created_at = utcnow, !.story_content = content]
          IN  rendered' = Append(rendered,
                                 [story |-> story,
                                  text |-> generate_story_content(story)])
    /\ UNCHANGED <<db, pc, locals, resp>>

RenderNext == RenderFirst \/ RenderTwin

RenderSpec == Init /\ [][RenderNext]_vars

----------------------------------------------------------------------------
(* Properties of generate_story_content, checked under RenderSpec.         *)

\* the text haystack contains the text needle
Contains(haystack, needle) ==
    \E i \in 1..(Len(haystack) - Len(needle) + 1) :
        SubSeq(haystack, i, i + Len(needle) - 1) = needle

\* the phrase the text must carry for a theme
ExpectedSetting(theme) ==
    CASE theme = "forest" ->
             "deep in a magical forest filled with talking animals"
      [] theme = "space" ->
             "on an exciting journey through the stars and planets"
      [] theme = "ocean" ->
             "in the depths of the ocean with colorful sea creatures"
      [] theme = "castle" ->
             "in a grand castle with brave knights and wise princesses"
      [] theme = "dinosaur" ->
             "in prehistoric times with friendly dinosaurs"
      [] theme = "fairy" ->
             "in an enchanted fairy kingdom with magical powers"
      [] OTHER -> "in a magical world"

\* C1: for each of the six recognized themes the returned text contains
\* that theme's fixed phrase, and for every other theme, the empty string
\* included, it contains "in a magical world"
C1_ThemeSetting ==
    \A i \in 1..Len(rendered) :
        Contains(rendered[i].text, ExpectedSetting(rendered[i].story.theme))

\* C1 witness: a Story whose theme is the empty string has been rendered,
\* and its text places the child in the generic setting
C1_Witness ==
    /\ Len(rendered) = 1
    /\ rendered[1].story.theme = ""
    /\ Contains(rendered[1].text, "found themselves in a magical world.")

\* the phrase the text must carry for a length
ExpectedPacing(length) ==
    CASE length = "short" -> "a quick but exciting"
      [] length = "medium" -> "a wonderful"
      [] length = "long" -> "an epic and detailed"
      [] OTHER -> "an amazing"

\* C2: "short", "medium" and "long" yield their pacing phrase in the
\* returned text and every other length yields "an amazing"
C2_LengthPacing ==
    \A i \in 1..Len(rendered) :
        Contains(rendered[i].text,
                 "This was the beginning of "
                 \o ExpectedPacing(rendered[i].story.length)
                 \o " adventure!")

\* C2 witness: an unrecognized length has been rendered with the generic
\* phrase
C2_Witness ==
    /\ Len(rendered) = 1
    /\ rendered[1].story.length = "huge"
    /\ Contains(rendered[1].text, "an amazing")

\* C3: an empty special_ingredients yields "special surprises"; a non-empty
\* one yields its elements joined with ", " in the input order, none
\* dropped, repeated ones kept; the phrase stands, whole, between
\* " discovered " and " that would help them"
C3_Ingredients ==
    \A i \in 1..Len(rendered) :
        LET given == rendered[i].story.special_ingredients
            listed == IF given = <<>> THEN "special surprises"
                      ELSE Join(", ", given)
        IN  Contains(rendered[i].text,
                     " discovered " \o listed \o " that would help them")

\* C3 witness: a list of two different ingredients has been rendered, and
\* the text names them in the order given
C3_Witness ==
    /\ Len(rendered) = 1
    /\ rendered[1].story.special_ingredients
           = <<"Talking animals", "Magic spells">>
    /\ Contains(rendered[1].text, "Talking animals, Magic spells")

RenderedFields ==
    {"kid_name", "kid_age", "theme", "story_type", "length",
     "special_ingredients"}

\* C10: two Story objects that agree on kid_name, kid_age, theme,
\* story_type, length and special_ingredients yield the same text, whatever
\* their kid_photo, id, created_at and story_content
C10_PhotoNonInterference ==
    \A i, j \in 1..Len(rendered) :
        (\A f \in RenderedFields : rendered[i].story[f] = rendered[j].story[f])
            => rendered[i].text = rendered[j].text

\* C10 witness: two rendered Story objects that differ in each of kid_photo,
\* id, created_at and story_content
C10_Witness ==
    /\ Len(rendered) = 2
    /\ rendered[1].story.kid_photo # rendered[2].story.kid_photo
    /\ rendered[2].story.kid_photo # None
    /\ rendered[1].story.id # rendered[2].story.id
    /\ rendered[1].story.created_at # rendered[2].story.created_at
    /\ rendered[1].story.story_content # rendered[2].story.story_content

----------------------------------------------------------------------------
(* Properties of the story endpoints, checked under Spec.                  *)

IsDone(r, op) == pc[r] = "done" /\ locals[r].op = op

\* request r's get_story has ended and its find_one had returned
Looked(r) == IsDone(r, "get_story") /\ "story" \in DOMAIN locals[r]

\* C5: a get_story whose find_one found no record of the identifier is
\* answered with status 404 and an error body
C5_LookupMissIs404 ==
    \A r \in Reqs :
        (Looked(r) /\ locals[r].story = None)
            => resp[r].status = NotFoundStatus

\* C6: a get_story called with the id a create_story has returned yields
\* the record that create_story inserted, equal in all ten fields
C6_RoundTrip ==
    \A g, c \in Reqs :
        (/\ Looked(g)
         /\ locals[g].after_create
         /\ IsDone(c, "create_story")
         /\ resp[c].status = OkStatus
         /\ resp[c].body.id = locals[g].story_id)
            => /\ resp[g].status = OkStatus
               /\ resp[g].body = locals[c].story_obj

\* C7: no two stored records share an id, and the id a create_story has
\* returned names exactly one stored record
C7_UniqueIds ==
    /\ \A i, j \in 1..Len(db) : db[i].id = db[j].id => i = j
    /\ \A r \in Reqs :
          (IsDone(r, "create_story") /\ resp[r].status = OkStatus)
              => Cardinality({i \in 1..Len(db) : db[i].id = resp[r].body.id}) = 1

\* the step in which request r's create_story ends
CreateStoryEnds(r) ==
    pc[r] # "done" /\ pc'[r] = "done" /\ locals'[r].op = "create_story"

\* the step in which the record of request r's create_story is stored
CreateStoryInserts(r) ==
    pc[r] = "insert_one" /\ pc'[r] = "inserted"

\* C8: every create_story adds exactly one record, with story_content set:
\* it ends only after its insert, and its insert adds one record; no step
\* changes or removes a stored record, and no other step adds one
C8_InsertOnce ==
    [][/\ Len(db') >= Len(db)
       /\ \A i \in 1..Len(db) : db'[i] = db[i]
       /\ \A r \in Reqs : CreateStoryEnds(r) => pc[r] = "inserted"
       /\ \A r \in Reqs :
             CreateStoryInserts(r) => /\ Len(db') = Len(db) + 1
                                      /\ db'[Len(db')].story_content # None
       /\ (\A r \in Reqs : ~CreateStoryInserts(r)) => db' = db]_vars

\* the text for a request body alone
RenderOf(story_data) == generate_story_content(Story(story_data, "", 0))

\* C9: whatever the interleaving, every create_story's response carries the
\* text for its own request body and the id of its own stored record, which
\* holds that body and that text
C9_Independent ==
    \A r \in Reqs :
        IsDone(r, "create_story") =>
            /\ resp[r].status = OkStatus
            /\ resp[r].body.story_content = RenderOf(locals[r].story_data)
            /\ LET own == db[locals[r].result.inserted_id]
               IN  /\ own.id = resp[r].body.id
                   /\ own.story_content = Some(resp[r].body.story_content)
                   /\ \A f \in StoryCreateFields :
                         own[f] = locals[r].story_data[f]

====
